---- MODULE Spec2Model ----
(***************************************************************************)
(* Model of net_parser.config.BaseConfigParser: the indentation            *)
(* normaliser (fix_indents), the construction of the node list (parse,     *)
(* _create_cfg_line_objects) and the regex query / extraction operations   *)
(* (find_objects, get_section_by_parents, match_to_dict,                   *)
(* property_autoparse, section_property_autoparse).                        *)
(*                                                                         *)
(* A config line is a sequence of tokens.  The tokens " " and "\t" are the *)
(* whitespace characters themselves; every other token is a word, a        *)
(* non-empty run of non-whitespace characters.                             *)
(***************************************************************************)
EXTENDS Integers, Sequences, FiniteSets, TLC

VARIABLES
    config,            \* self._config: the raw lines handed to the constructor
    loaded,            \* whether self.config_lines_str has been assigned yet
    config_lines_str,  \* self.config_lines_str
    lines,             \* self.lines: the node list
    interface_line_class,  \* self.INTERFACE_LINE_CLASS, which only a subclass defines
    minimal_results,   \* self.minimal_results, which __init__ does not assign
    call               \* the invocation in progress: operation, arguments, result

vars == <<config, loaded, config_lines_str, lines, interface_line_class,
         minimal_results, call>>

(***************************************************************************)
(* Bounds of the model.                                                    *)
(***************************************************************************)
MaxLines == 4      \* lines of a config of the indentation specification
MaxIndent == 2     \* raw leading spaces of a line of that specification
MaxQLines == 4     \* lines of a config of the section specification
MaxSLines == 3     \* lines of a config of the section extraction specification
MaxELines == 2     \* lines of a config of the full specification
MaxNodes == 4      \* nodes self.lines may hold before parse is no longer taken

(***************************************************************************)
(* Strings.                                                                *)
(***************************************************************************)
Whitespace == {" ", "\t"}

None == "None"

\* an attribute the object does not have: reading it raises AttributeError
Unset == "unset"

\* str.lstrip(" ") counted: the number of leading " " characters
RECURSIVE LeadingSpaces(_)
LeadingSpaces(s) ==
    IF s = <<>> \/ Head(s) # " " THEN 0 ELSE 1 + LeadingSpaces(Tail(s))

\* len(line) - len(line.lstrip(" "))
_get_indent(line) == LeadingSpaces(line)

RECURSIVE LStrip(_)
LStrip(s) ==
    IF s = <<>> \/ Head(s) \notin Whitespace THEN s ELSE LStrip(Tail(s))

RECURSIVE RStrip(_)
RStrip(s) ==
    IF s = <<>> \/ s[Len(s)] \notin Whitespace THEN s
    ELSE RStrip(SubSeq(s, 1, Len(s) - 1))

\* str.strip(): every leading and trailing whitespace character removed
Strip(s) == RStrip(LStrip(s))

\* " " * n: the empty string when n <= 0
Spaces(n) == [i \in 1..n |-> " "]

(***************************************************************************)
(* fix_indents.                                                            *)
(***************************************************************************)
\* fix_indents, were a deeper line to climb by its raw difference instead of one
RECURSIVE FixedIndentMapRawStep(_)
FixedIndentMapRawStep(indent_map) ==
    LET n == Len(indent_map) IN
    IF n = 0 THEN <<>>
    ELSE LET fixed == FixedIndentMapRawStep(SubSeq(indent_map, 1, n - 1)) IN
         IF n = 1 THEN <<0>>
         ELSE IF indent_map[n] = 0 THEN Append(fixed, 0)
         ELSE IF indent_map[n] = indent_map[n-1] THEN Append(fixed, fixed[n-1])
         ELSE IF indent_map[n] > indent_map[n-1]
              THEN Append(fixed, fixed[n-1] + (indent_map[n] - indent_map[n-1]))
         ELSE Append(fixed, fixed[n-1] - 1)

\* The list fixed_indent_map the loop builds from indent_map.
RECURSIVE FixedIndentMap(_)
FixedIndentMap(indent_map) ==
    LET n == Len(indent_map) IN
    IF n = 0 THEN <<>>
    ELSE LET fixed == FixedIndentMap(SubSeq(indent_map, 1, n - 1)) IN
         IF n = 1 THEN <<0>>
         ELSE IF indent_map[n] = 0 THEN Append(fixed, 0)
         ELSE IF indent_map[n] = indent_map[n-1] THEN Append(fixed, fixed[n-1])
         ELSE IF indent_map[n] > indent_map[n-1] THEN Append(fixed, fixed[n-1] + 1)
         ELSE Append(fixed, fixed[n-1] - 1)

IndentMap(strs) == [i \in 1..Len(strs) |-> _get_indent(strs[i])]

\* The rewritten self.config_lines_str
FixedLines(strs) ==
    LET fixed == FixedIndentMap(IndentMap(strs)) IN
    [i \in 1..Len(strs) |-> Spaces(fixed[i]) \o Strip(strs[i])]

(***************************************************************************)
(* Regular expressions.  A pattern is one word atom, or two word atoms     *)
(* separated by one space; an atom is a literal word or \S+, and may be a  *)
(* named group.  [a |-> "interface", b |-> AnyWord, ga |-> NoKey,          *)
(* gb |-> "x"] is the pattern  interface (?P<x>\S+) .                      *)
(***************************************************************************)
AnyWord == "\\S+"
NoAtom == "-"
NoKey == "-"

Pat(a, b, ga, gb) == [a |-> a, b |-> b, ga |-> ga, gb |-> gb]

AtomMatches(atom, tok) == tok \notin Whitespace /\ (atom = AnyWord \/ atom = tok)

\* the pattern matches text starting at position i
MatchesAt(pattern, text, i) ==
    /\ i \in 1..Len(text)
    /\ AtomMatches(pattern.a, text[i])
    /\ \/ pattern.b = NoAtom
       \/ /\ i + 2 <= Len(text)
          /\ text[i+1] = " "
          /\ AtomMatches(pattern.b, text[i+2])

\* pattern.search(text): the start of the leftmost match, 0 when there is none
SearchPos(pattern, text) ==
    LET hits == {i \in 1..Len(text) : MatchesAt(pattern, text, i)} IN
    IF hits = {} THEN 0 ELSE CHOOSE i \in hits : \A j \in hits : i <= j

\* pattern.groupindex.keys()
GroupIndex(pattern) ==
    (IF pattern.ga = NoKey THEN {} ELSE {pattern.ga}) \cup
    (IF pattern.gb = NoKey \/ pattern.b = NoAtom THEN {} ELSE {pattern.gb})

\* match.groupdict() of the match starting at position i
GroupDict(pattern, text, i) ==
    [k \in GroupIndex(pattern) |-> IF k = pattern.ga THEN text[i] ELSE text[i+2]]

EmptyDict == [k \in {} |-> None]

\* dict.update
Update(d, u) ==
    [k \in (DOMAIN d) \cup (DOMAIN u) |-> IF k \in DOMAIN u THEN u[k] ELSE d[k]]

\* {k: None for k in pattern.groupindex.keys()}
NoneDict(pattern) == [k \in GroupIndex(pattern) |-> None]

(***************************************************************************)
(* Config lines as nodes.  A node is referred to by its position in        *)
(* self.lines (1-based); number is the ordinal the node was given.         *)
(***************************************************************************)
\* re.match(r"^interface\s\S+", text)
IsInterfaceText(text) ==
    /\ Len(text) >= 3
    /\ text[1] = "interface"
    /\ text[2] \in Whitespace
    /\ text[3] \notin Whitespace

\* BaseConfigLine(number=number, text=text, ...) / INTERFACE_LINE_CLASS(...)
\* the node, or AttributeError where self.INTERFACE_LINE_CLASS is read and missing
NewLine(number, text, line_class) ==
    IF IsInterfaceText(text) /\ line_class = Unset
    THEN [raised |-> TRUE, node |-> [number |-> number, text |-> text, kind |-> "none"]]
    ELSE [raised |-> FALSE,
          node |-> [number |-> number, text |-> text,
                    kind |-> IF IsInterfaceText(text) THEN "interface" ELSE "generic"]]

\* line.re_search(regex=pattern, group=None) is truthy
ReSearch(line, pattern) == SearchPos(pattern, line.text) # 0

\* line.re_search(regex=pattern, group="ALL"): the named groups, or None
ReSearchAll(line, pattern) ==
    LET i == SearchPos(pattern, line.text) IN
    IF i = 0 THEN [matched |-> FALSE, groups |-> EmptyDict]
    ELSE [matched |-> TRUE, groups |-> GroupDict(pattern, line.text, i)]

\* line.re_match(regex): the pattern is found in the line's text
ReMatch(line, pattern) == SearchPos(pattern, line.text) # 0

Depth(line) == LeadingSpaces(line.text)

\* position of the nearest preceding node of strictly smaller depth, 0 at the root
ParentOf(ls, i) ==
    LET above == {j \in 1..(i-1) : Depth(ls[j]) < Depth(ls[i])} IN
    IF above = {} THEN 0 ELSE CHOOSE j \in above : \A k \in above : k <= j

\* the positions of a set, in increasing order
RECURSIVE SortedSeq(_)
SortedSeq(S) ==
    IF S = {} THEN <<>>
    ELSE LET m == CHOOSE x \in S : \A y \in S : x <= y
         IN <<m>> \o SortedSeq(S \ {m})

\* line.get_children(): the direct children, in line order
GetChildren(ls, i) == SortedSeq({k \in (i+1)..Len(ls) : ParentOf(ls, k) = i})

\* line.is_parent
IsParent(ls, i) == \E k \in (i+1)..Len(ls) : ParentOf(ls, k) = i

\* line.re_search_children(regex=pattern, group="ALL")
ReSearchChildren(ls, i, pattern) ==
    LET kids == GetChildren(ls, i)
        hit == SortedSeq({n \in 1..Len(kids) : ReSearch(ls[kids[n]], pattern)})
    IN [n \in 1..Len(hit) |-> ReSearchAll(ls[kids[hit[n]]], pattern).groups]

(***************************************************************************)
(* parse.                                                                  *)
(***************************************************************************)
\* load_text(obj=self._config): the lines of a config given as a list
LoadConfig(cfg) == cfg

\* _create_cfg_line_objects: one node per string, appended to self.lines in
\* order; the loop ends at the first string whose node cannot be built
CreateCfgLineObjects(ls, strs, line_class) ==
    LET failing == {i \in 1..Len(strs) : NewLine(i - 1, strs[i], line_class).raised}
        built == IF failing = {} THEN Len(strs)
                 ELSE (CHOOSE i \in failing : \A j \in failing : i <= j) - 1
    IN [raised |-> failing # {},
        lines |-> ls \o [i \in 1..built |-> NewLine(i - 1, strs[i], line_class).node]]

SeqsUpTo(S, n) == UNION {[1..k -> S] : k \in 0..n}

NoCall == [op |-> "none"]

\* the parser is synchronous and single-threaded: one invocation at a time
Idle == call = NoCall

\* the caller takes the result of the invocation
Return ==
    /\ ~Idle
    /\ call' = NoCall
    /\ UNCHANGED <<config, loaded, config_lines_str, lines, interface_line_class,
                   minimal_results>>

\* parse assigns self.config_lines_str before it builds the nodes
Parse ==
    /\ Idle
    /\ Len(lines) + Len(config) <= MaxNodes
    /\ LET raw_config_lines == LoadConfig(config)
           created == CreateCfgLineObjects(lines, raw_config_lines, interface_line_class)
       IN /\ config_lines_str' = raw_config_lines
          /\ lines' = created.lines
          /\ call' = [op |-> "parse", raised |-> created.raised]
    /\ loaded' = TRUE
    /\ UNCHANGED <<config, interface_line_class, minimal_results>>

\* fix_indents reads self.config_lines_str, which only parse assigns
FixIndents ==
    /\ Idle
    /\ loaded
    /\ config_lines_str' = FixedLines(config_lines_str)
    /\ call' = [op |-> "fix_indents",
                before |-> config_lines_str,
                indent_map |-> IndentMap(config_lines_str),
                fixed_indent_map |-> FixedIndentMap(IndentMap(config_lines_str))]
    /\ UNCHANGED <<config, loaded, lines, interface_line_class, minimal_results>>

(***************************************************************************)
(* The indentation specification: configs of arbitrary raw indentation.    *)
(***************************************************************************)
Bodies == {<<"a">>, <<"\t", "a", " ">>, <<>>}

IndentLines == {Spaces(n) \o b : n \in 0..MaxIndent, b \in Bodies}

InitIndent ==
    /\ config \in SeqsUpTo(IndentLines, MaxLines)
    /\ loaded = FALSE
    /\ config_lines_str = <<>>
    /\ lines = <<>>
    /\ interface_line_class = Unset
    /\ minimal_results = Unset
    /\ call = NoCall

NextIndent == Parse \/ FixIndents \/ Return

SpecIndent == InitIndent /\ [][NextIndent]_vars

(***************************************************************************)
(* The query and extraction operations, as functions of the node list.     *)
(* A node is returned as its position in self.lines.                       *)
(***************************************************************************)
NoGroup == "-"
All == "ALL"

\* the result of line.re_search(regex=pattern, group=group) is truthy
ReSearchTruthy(line, pattern, group) ==
    IF group = All
    THEN ReSearchAll(line, pattern).matched /\ ReSearchAll(line, pattern).groups # EmptyDict
    ELSE ReSearch(line, pattern)

\* find_objects, were the scan to stop at the first matching line
FindObjectsFirstOnly(ls, pattern, group) ==
    LET hit == SortedSeq({i \in 1..Len(ls) : ReSearchTruthy(ls[i], pattern, group)})
        first == IF hit = <<>> THEN <<>> ELSE <<hit[1]>>
        results == [n \in 1..Len(first) |-> ReSearchAll(ls[first[n]], pattern).groups]
    IN IF group = NoGroup THEN first ELSE results

\* find_objects(regex, group=group)
FindObjects(ls, pattern, group) ==
    LET hit == SortedSeq({i \in 1..Len(ls) : ReSearchTruthy(ls[i], pattern, group)})
        results == [n \in 1..Len(hit) |-> ReSearchAll(ls[hit[n]], pattern).groups]
    IN IF group = NoGroup THEN hit ELSE results

\* the candidates of one step, were the is_parent test left out
StepMatchesAnyLine(ls, section, parent) ==
    LET idx == SortedSeq({n \in 1..Len(section) : ReMatch(ls[section[n]], parent)})
    IN [n \in 1..Len(idx) |-> section[idx[n]]]

\* the candidates of one step: [x for x in section if x.is_parent and x.re_match(parent)]
StepMatches(ls, section, parent) ==
    LET idx == SortedSeq({n \in 1..Len(section) :
                   IsParent(ls, section[n]) /\ ReMatch(ls[section[n]], parent)})
    IN [n \in 1..Len(idx) |-> section[idx[n]]]

\* the loop of get_section_by_parents, were the first of several matches taken
RECURSIVE WalkParentsFirstMatch(_, _, _)
WalkParentsFirstMatch(ls, section, parents) ==
    IF parents = <<>> THEN section
    ELSE LET found == StepMatches(ls, section, Head(parents)) IN
         IF Len(found) >= 1
         THEN WalkParentsFirstMatch(ls, GetChildren(ls, found[1]), Tail(parents))
         ELSE <<>>

\* the loop of get_section_by_parents over the remaining patterns
RECURSIVE WalkParents(_, _, _)
WalkParents(ls, section, parents) ==
    IF parents = <<>> THEN section
    ELSE LET found == StepMatches(ls, section, Head(parents)) IN
         IF Len(found) = 1
         THEN WalkParents(ls, GetChildren(ls, found[1]), Tail(parents))
         ELSE <<>>

\* get_section_by_parents(parents)
GetSectionByParents(ls, parents) ==
    WalkParents(ls, [i \in 1..Len(ls) |-> i], parents)

\* the outcomes of an extraction of one dictionary
Returned(entry) == [raised |-> FALSE, entry |-> entry]
AttributeError == [raised |-> TRUE, entry |-> EmptyDict]

\* match_to_dict, were a key kept once an earlier pattern has set it
RECURSIVE MatchToDictFirstWins(_, _, _)
MatchToDictFirstWins(line, patterns, minimal) ==
    IF patterns = <<>> THEN Returned(EmptyDict)
    ELSE LET n == Len(patterns)
             pattern == patterns[n]
             before == MatchToDictFirstWins(line, SubSeq(patterns, 1, n - 1), minimal)
             match_result == ReSearchAll(line, pattern)
         IN IF before.raised THEN before
            ELSE IF match_result.matched
                 THEN Returned(Update(match_result.groups, before.entry))
            ELSE IF minimal = Unset THEN AttributeError
            ELSE IF minimal = "True" THEN before
            ELSE Returned(Update(NoneDict(pattern), before.entry))

\* match_to_dict, were the minimal_results test inverted
RECURSIVE MatchToDictInverted(_, _, _)
MatchToDictInverted(line, patterns, minimal) ==
    IF patterns = <<>> THEN Returned(EmptyDict)
    ELSE LET n == Len(patterns)
             pattern == patterns[n]
             before == MatchToDictInverted(line, SubSeq(patterns, 1, n - 1), minimal)
             match_result == ReSearchAll(line, pattern)
         IN IF before.raised THEN before
            ELSE IF match_result.matched
                 THEN Returned(Update(before.entry, match_result.groups))
            ELSE IF minimal = Unset THEN AttributeError
            ELSE IF minimal = "False" THEN before
            ELSE Returned(Update(before.entry, NoneDict(pattern)))

\* match_to_dict(line, patterns): the patterns are taken in list order; a
\* pattern that fails to match reads self.minimal_results
RECURSIVE MatchToDict(_, _, _)
MatchToDict(line, patterns, minimal) ==
    IF patterns = <<>> THEN Returned(EmptyDict)
    ELSE LET n == Len(patterns)
             pattern == patterns[n]
             before == MatchToDict(line, SubSeq(patterns, 1, n - 1), minimal)
             match_result == ReSearchAll(line, pattern)
         IN IF before.raised THEN before
            ELSE IF match_result.matched
                 THEN Returned(Update(before.entry, match_result.groups))
            ELSE IF minimal = Unset THEN AttributeError
            ELSE IF minimal = "True" THEN before
            ELSE Returned(Update(before.entry, NoneDict(pattern)))

\* the outcomes of an extraction of a list of dictionaries
ReturnedNone == [raised |-> FALSE, none |-> TRUE, items |-> <<>>]
ReturnedList(items) == [raised |-> FALSE, none |-> FALSE, items |-> items]
ListAttributeError == [raised |-> TRUE, none |-> FALSE, items |-> <<>>]

\* property_autoparse, were the dictionaries built for every line once any matches
PropertyAutoparseAllLines(ls, candidate_pattern, patterns, minimal) ==
    LET candidates == FindObjects(ls, candidate_pattern, NoGroup)
        each == [n \in 1..Len(ls) |-> MatchToDict(ls[n], patterns, minimal)]
    IN IF Len(candidates) = 0 THEN ReturnedNone
       ELSE IF \E n \in 1..Len(each) : each[n].raised THEN ListAttributeError
       ELSE ReturnedList([n \in 1..Len(each) |-> each[n].entry])

\* property_autoparse(candidate_pattern, patterns): None, a list of
\* dictionaries, or the error match_to_dict raises on a candidate
PropertyAutoparse(ls, candidate_pattern, patterns, minimal) ==
    LET candidates == FindObjects(ls, candidate_pattern, NoGroup)
        each == [n \in 1..Len(candidates) |->
                    MatchToDict(ls[candidates[n]], patterns, minimal)]
    IN IF Len(candidates) = 0 THEN ReturnedNone
       ELSE IF \E n \in 1..Len(each) : each[n].raised THEN ListAttributeError
       ELSE ReturnedList([n \in 1..Len(each) |-> each[n].entry])

\* the inner loop of section_property_autoparse over the patterns, for one
\* candidate; a pattern no child matches reads self.minimal_results
RECURSIVE ChildUpdates(_, _, _, _, _)
ChildUpdates(ls, candidate, entry0, patterns, minimal) ==
    IF patterns = <<>> THEN entry0
    ELSE LET n == Len(patterns)
             pattern == patterns[n]
             before == ChildUpdates(ls, candidate, entry0, SubSeq(patterns, 1, n - 1), minimal)
             updates == ReSearchChildren(ls, candidate, pattern)
         IN IF before.raised THEN before
            ELSE IF Len(updates) = 1 THEN Returned(Update(before.entry, updates[1]))
            ELSE IF Len(updates) = 0
                 THEN IF minimal = Unset THEN AttributeError
                      ELSE IF minimal = "True" THEN before
                      ELSE Returned(Update(before.entry, NoneDict(pattern)))
            ELSE before

\* a parent argument: a node, or a pattern
LineArg(i) == [is_line |-> TRUE, line |-> i, pattern |-> Pat(NoAtom, NoAtom, NoKey, NoKey)]
PatternArg(pattern) == [is_line |-> FALSE, line |-> 0, pattern |-> pattern]

\* the dictionary section_property_autoparse builds for one candidate
SectionEntry(ls, parent, candidate, patterns, minimal) ==
    LET entry0 == IF parent.is_line THEN Returned(EmptyDict)
                  ELSE MatchToDict(ls[candidate], <<parent.pattern>>, minimal)
    IN ChildUpdates(ls, candidate, entry0, patterns, minimal)

\* section_property_autoparse(parent, patterns, return_with_line)
SectionPropertyAutoparse(ls, parent, patterns, return_with_line, minimal) ==
    LET candidates == IF parent.is_line THEN <<parent.line>>
                      ELSE FindObjects(ls, parent.pattern, NoGroup)
        each == [n \in 1..Len(candidates) |->
                    SectionEntry(ls, parent, candidates[n], patterns, minimal)]
    IN IF Len(candidates) = 0 THEN ReturnedNone
       ELSE IF \E n \in 1..Len(each) : each[n].raised THEN ListAttributeError
       ELSE ReturnedList([n \in 1..Len(each) |->
                IF return_with_line THEN <<candidates[n], each[n].entry>>
                ELSE each[n].entry])

(***************************************************************************)
(* The inputs of the query specifications.                                 *)
(***************************************************************************)
QContents == {<<"interface", " ", "e0">>, <<"interface", " ", "e1">>, <<"ip", " ", "e1">>}

QIndents == {0, 1, 2}

\* the indentations of the full specification
EIndents == {0, 1}

\* the contents of the two section specifications
SectionContents == {<<"interface", " ", "e0">>, <<"interface", " ", "e1">>}

LinesOf(contents, indents) == {Spaces(n) \o c : n \in indents, c \in contents}

pE0 == Pat("e0", NoAtom, NoKey, NoKey)         \* e0
pE1 == Pat(AnyWord, "e1", "y", NoKey)          \* (?P<y>\S+) e1
pIf == Pat("interface", AnyWord, NoKey, "x")   \* interface (?P<x>\S+)
pW == Pat(AnyWord, NoAtom, "x", NoKey)         \* (?P<x>\S+)
pZ == Pat("e0", NoAtom, "z", NoKey)            \* (?P<z>e0)

QPatterns == {pE0, pE1, pIf, pW}

ChainPatterns == {pE0, pE1, pIf}

\* the lists of at most two patterns
ListsOf(P) == {<<>>} \cup {<<p>> : p \in P} \cup {<<p, q>> : p \in P, q \in P}

\* the object is a BaseConfigParser, which has neither attribute, or an
\* instance of a subclass that defines them
LineClasses == {Unset, "InterfaceLine"}
MinimalResults == {Unset, "True", "False"}

InitQuery(contents, indents, n, minimals) ==
    /\ config \in SeqsUpTo(LinesOf(contents, indents), n)
    /\ loaded = FALSE
    /\ config_lines_str = <<>>
    /\ lines = <<>>
    /\ interface_line_class \in LineClasses
    /\ minimal_results \in minimals
    /\ call = NoCall

(***************************************************************************)
(* The query operations as actions: each leaves the parser unchanged and   *)
(* records its arguments and its result.                                   *)
(***************************************************************************)
Quiet ==
    UNCHANGED <<config, loaded, config_lines_str, lines, interface_line_class,
                minimal_results>>

FindObjectsCall ==
    /\ Idle
    /\ \E regex \in QPatterns, group \in {NoGroup, All} :
          call' = [op |-> "find_objects", regex |-> regex, group |-> group,
                   result |-> FindObjects(lines, regex, group)]
    /\ Quiet

GetSectionByParentsCall ==
    /\ Idle
    /\ \E parents \in ListsOf(ChainPatterns) :
          call' = [op |-> "get_section_by_parents", parents |-> parents,
                   result |-> GetSectionByParents(lines, parents)]
    /\ Quiet

MatchToDictCall ==
    /\ Idle
    /\ \E line \in 1..Len(lines), patterns \in ListsOf(QPatterns) :
          call' = [op |-> "match_to_dict", line |-> line, patterns |-> patterns,
                   result |-> MatchToDict(lines[line], patterns, minimal_results)]
    /\ Quiet

PropertyAutoparseCall ==
    /\ Idle
    /\ \E candidate_pattern \in QPatterns, patterns \in ListsOf(QPatterns) :
          call' = [op |-> "property_autoparse",
                   candidate_pattern |-> candidate_pattern, patterns |-> patterns,
                   result |-> PropertyAutoparse(lines, candidate_pattern, patterns,
                                                minimal_results)]
    /\ Quiet

ParentArgs == {PatternArg(p) : p \in {pIf, pZ}} \cup {LineArg(i) : i \in 1..Len(lines)}

SectionPropertyAutoparseCall ==
    /\ Idle
    /\ \E parent \in ParentArgs, patterns \in ListsOf(QPatterns \ {pE0}),
          return_with_line \in BOOLEAN :
          call' = [op |-> "section_property_autoparse", parent |-> parent,
                   patterns |-> patterns, return_with_line |-> return_with_line,
                   result |-> SectionPropertyAutoparse(lines, parent, patterns,
                                  return_with_line, minimal_results)]
    /\ Quiet

(***************************************************************************)
(* The specifications.                                                     *)
(***************************************************************************)
Init == InitQuery(QContents, EIndents, MaxELines, MinimalResults)

Next ==
    \/ Parse
    \/ FixIndents
    \/ FindObjectsCall
    \/ GetSectionByParentsCall
    \/ MatchToDictCall
    \/ PropertyAutoparseCall
    \/ SectionPropertyAutoparseCall
    \/ Return

Spec == Init /\ [][Next]_vars

\* get_section_by_parents never reads self.minimal_results
InitSection == InitQuery(SectionContents, QIndents, MaxQLines, {Unset})

NextSection == Parse \/ GetSectionByParentsCall \/ Return

SpecSection == InitSection /\ [][NextSection]_vars

InitSectionExtract == InitQuery(SectionContents, QIndents, MaxSLines, MinimalResults)

NextSectionExtract == Parse \/ SectionPropertyAutoparseCall \/ Return

SpecSectionExtract == InitSectionExtract /\ [][NextSectionExtract]_vars

(***************************************************************************)
(* Properties of fix_indents and parse, checked under SpecIndent.          *)
(***************************************************************************)
FixCall == call.op = "fix_indents"

UnitStep(d) == d \in {-1, 0, 1}

\* C1 (as stated): after fix_indents the first normalized depth is 0 and every
\* two adjacent normalized depths differ by -1, 0 or +1.
C1_UnitStepLadder ==
    FixCall =>
        LET fixed == call.fixed_indent_map IN
        /\ Len(fixed) > 0 => fixed[1] = 0
        /\ \A i \in 2..Len(fixed) : UnitStep(fixed[i] - fixed[i-1])

\* C1 (amended): after fix_indents the first normalized depth is 0, every line
\* without raw leading spaces has normalized depth 0, and every other line
\* differs from its predecessor's normalized depth by -1, 0 or +1.
C1_UnitStepUnlessUnindented ==
    FixCall =>
        LET fixed == call.fixed_indent_map
            raw == call.indent_map
        IN /\ Len(fixed) = Len(raw)
           /\ Len(fixed) > 0 => fixed[1] = 0
           /\ \A i \in 2..Len(fixed) :
                IF raw[i] = 0 THEN fixed[i] = 0
                ELSE UnitStep(fixed[i] - fixed[i-1])

\* fix_indents has run on lines that climb two levels, one of them by two raw
\* spaces, and then return to no indentation
C1_Witness ==
    /\ FixCall
    /\ \E i \in 2..Len(call.fixed_indent_map) :
          /\ call.indent_map[i] = 0
          /\ call.fixed_indent_map[i-1] = 2
          /\ call.fixed_indent_map[i] = 0
    /\ \E i \in 2..Len(call.fixed_indent_map) :
          /\ call.indent_map[i] > call.indent_map[i-1]
          /\ call.fixed_indent_map[i] = call.fixed_indent_map[i-1] + 1

\* C9: every normalized depth fix_indents computes is non-negative and each
\* rewritten line has exactly that many leading spaces.
C9_DepthsNonNegative ==
    FixCall =>
        \A i \in 1..Len(call.fixed_indent_map) :
            /\ call.fixed_indent_map[i] >= 0
            /\ LeadingSpaces(config_lines_str[i]) = call.fixed_indent_map[i]

\* C10: after one or more parse invocations the node list holds one node per
\* loaded line, in line order, the node at position i having ordinal i.
C10_OneNodePerLine ==
    loaded =>
        /\ Len(lines) = Len(config_lines_str)
        /\ \A i \in 1..Len(lines) : lines[i].number = i - 1

(***************************************************************************)
(* Properties of the query operations.                                     *)
(***************************************************************************)
\* the pattern is found somewhere in the text
Found(pattern, text) == \E i \in 1..Len(text) : MatchesAt(pattern, text, i)

Range(f) == {f[i] : i \in DOMAIN f}

Increasing(f) == \A i \in 1..Len(f), j \in 1..Len(f) : i < j => f[i] < f[j]

\* the nodes of a set that have children and whose text the pattern is found in
ParentCandidates(S, pattern) ==
    {x \in S : /\ \E k \in 1..Len(lines) : ParentOf(lines, k) = x
               /\ Found(pattern, lines[x].text)}

ChildrenOf(x) == {k \in 1..Len(lines) : ParentOf(lines, k) = x}

AllNodes == 1..Len(lines)

\* the candidate set the walk holds before the step k of the chain
SectionBefore(parents, k) == Range(GetSectionByParents(lines, SubSeq(parents, 1, k - 1)))

SectionCall == call.op = "get_section_by_parents"

\* C2: when, at some step of the chain, the candidates that have children and
\* match the step's pattern are none or several, get_section_by_parents
\* returns the empty list.
C2_AmbiguousOrMissingIsEmpty ==
    SectionCall =>
        \A k \in 1..Len(call.parents) :
            Cardinality(ParentCandidates(SectionBefore(call.parents, k), call.parents[k])) # 1
                => call.result = <<>>

\* a walk has met several child-bearing candidates matching its first pattern,
\* and returned nothing
C2_Witness ==
    /\ SectionCall
    /\ Len(call.parents) >= 1
    /\ Cardinality(ParentCandidates(AllNodes, call.parents[1])) >= 2
    /\ call.result = <<>>

\* every step of the chain has exactly one child-bearing matching candidate
UniqueAtEveryStep(parents) ==
    \A k \in 1..Len(parents) :
        Cardinality(ParentCandidates(SectionBefore(parents, k), parents[k])) = 1

\* the node the last step of the chain matched
LastMatched(parents) ==
    CHOOSE x \in ParentCandidates(SectionBefore(parents, Len(parents)), parents[Len(parents)]) : TRUE

\* two distinct sibling interface lines that both have children
SiblingInterfaces(a, b) ==
    /\ a # b
    /\ ParentOf(lines, a) = ParentOf(lines, b)
    /\ lines[a].kind = "interface" /\ lines[b].kind = "interface"
    /\ ChildrenOf(a) # {} /\ ChildrenOf(b) # {}

\* C3: when every pattern of a non-empty chain matches exactly one
\* child-bearing candidate at its step, get_section_by_parents returns the
\* direct children of the last matched node in line order; and one-pattern
\* chains that single out two sibling interface lines give disjoint results.
C3_ChildrenOfLastMatched ==
    /\ (SectionCall /\ call.parents # <<>> /\ UniqueAtEveryStep(call.parents)) =>
          /\ Increasing(call.result)
          /\ Range(call.result) = ChildrenOf(LastMatched(call.parents))
    /\ \A a \in AllNodes, b \in AllNodes, p \in ChainPatterns, q \in ChainPatterns :
          (/\ Idle
           /\ SiblingInterfaces(a, b)
           /\ ParentCandidates(AllNodes, p) = {a}
           /\ ParentCandidates(AllNodes, q) = {b}) =>
              /\ Range(GetSectionByParents(lines, <<p>>)) = ChildrenOf(a)
              /\ Range(GetSectionByParents(lines, <<q>>)) = ChildrenOf(b)
              /\ Range(GetSectionByParents(lines, <<p>>)) \cap
                 Range(GetSectionByParents(lines, <<q>>)) = {}

\* a chain has been resolved in a config that holds two sibling interface
\* lines with children, one of them singled out by the first pattern although
\* a childless line matches that pattern too
C3_Witness ==
    /\ SectionCall
    /\ call.parents # <<>>
    /\ UniqueAtEveryStep(call.parents)
    /\ call.result # <<>>
    /\ \E a \in AllNodes, b \in AllNodes :
          /\ SiblingInterfaces(a, b)
          /\ ParentCandidates(AllNodes, call.parents[1]) = {a}
          /\ ParentCandidates(AllNodes, pE1) = {b}
    /\ \E x \in AllNodes : ChildrenOf(x) = {} /\ Found(call.parents[1], lines[x].text)

\* the nodes whose text the pattern is found in
Matching(pattern) == {i \in AllNodes : Found(pattern, lines[i].text)}

\* what the leftmost match of the pattern in the text captures for group k
Captured(pattern, text, k) ==
    LET i == CHOOSE j \in 1..Len(text) :
                 /\ MatchesAt(pattern, text, j)
                 /\ \A h \in 1..(j-1) : ~MatchesAt(pattern, text, h)
    IN IF k = pattern.ga THEN text[i] ELSE text[i+2]

FindCall == call.op = "find_objects"

\* C4: find_objects with group unspecified returns exactly the nodes whose text
\* matches the pattern, each once and in node-list order; an empty list when no
\* node matches.
C4_FindReturnsMatchingNodes ==
    (FindCall /\ call.group = NoGroup) =>
        /\ Increasing(call.result)
        /\ Range(call.result) = Matching(call.regex)
        /\ Matching(call.regex) = {} => call.result = <<>>

\* find_objects has returned several nodes, but not all of them
C4_Witness ==
    /\ FindCall
    /\ call.group = NoGroup
    /\ Len(call.result) >= 2
    /\ Len(call.result) < Len(lines)

DictCall == call.op = "match_to_dict"

\* C5: match_to_dict(node, [p1, p2]) where both patterns define the group x and
\* both capture a value for it: the call returns and the result's x is what p2
\* captured, not what p1 captured.
C5_LaterPatternWins ==
    (/\ DictCall
     /\ Len(call.patterns) = 2
     /\ "x" \in GroupIndex(call.patterns[1]) \cap GroupIndex(call.patterns[2])
     /\ Found(call.patterns[1], lines[call.line].text)
     /\ Found(call.patterns[2], lines[call.line].text)) =>
        /\ ~call.result.raised
        /\ "x" \in DOMAIN call.result.entry
        /\ call.result.entry["x"] = Captured(call.patterns[2], lines[call.line].text, "x")

\* both patterns matched the node and captured different values for x
C5_Witness ==
    /\ DictCall
    /\ Len(call.patterns) = 2
    /\ "x" \in GroupIndex(call.patterns[1]) \cap GroupIndex(call.patterns[2])
    /\ Found(call.patterns[1], lines[call.line].text)
    /\ Found(call.patterns[2], lines[call.line].text)
    /\ Captured(call.patterns[1], lines[call.line].text, "x")
         # Captured(call.patterns[2], lines[call.line].text, "x")
    /\ ~call.result.raised
    /\ call.result.entry["x"] = Captured(call.patterns[2], lines[call.line].text, "x")

\* the outcome of match_to_dict after its first n patterns
EntryAfter(n) == MatchToDict(lines[call.line], SubSeq(call.patterns, 1, n), minimal_results)

\* the minimal-results option has a value: it is on, or it is off
OptionOn == minimal_results = "True"
OptionOff == minimal_results = "False"

\* C6: in match_to_dict, on a parser whose minimal-results option is on or off,
\* a pattern that fails to match leaves the dictionary as it was when the
\* option is on, and when it is off puts each of its group names in the
\* dictionary with the value None.
C6_FailedPatternKeys ==
    (DictCall /\ (OptionOn \/ OptionOff)) =>
        /\ ~call.result.raised
        /\ call.result = EntryAfter(Len(call.patterns))
        /\ \A n \in 1..Len(call.patterns) :
              ~Found(call.patterns[n], lines[call.line].text) =>
                  IF OptionOn
                  THEN EntryAfter(n) = EntryAfter(n - 1)
                  ELSE \A k \in GroupIndex(call.patterns[n]) :
                          /\ k \in DOMAIN EntryAfter(n).entry
                          /\ EntryAfter(n).entry[k] = None
        /\ \A k \in DOMAIN call.result.entry :
              call.result.entry[k] = None =>
                  /\ OptionOff
                  /\ \E n \in 1..Len(call.patterns) :
                        /\ k \in GroupIndex(call.patterns[n])
                        /\ ~Found(call.patterns[n], lines[call.line].text)
        /\ \A n \in 1..Len(call.patterns) : \A k \in GroupIndex(call.patterns[n]) :
              (OptionOff /\ ~Found(call.patterns[n], lines[call.line].text)) =>
                  /\ k \in DOMAIN call.result.entry
                  /\ \/ call.result.entry[k] = None
                     \/ \E m \in (n+1)..Len(call.patterns) :
                           /\ k \in GroupIndex(call.patterns[m])
                           /\ Found(call.patterns[m], lines[call.line].text)

\* the option is off and both patterns of the list failed to match, the last
\* one having group names: the call returned and every key is None
C6_Witness ==
    /\ DictCall
    /\ OptionOff
    /\ Len(call.patterns) = 2
    /\ \A n \in 1..2 : /\ ~Found(call.patterns[n], lines[call.line].text)
                       /\ GroupIndex(call.patterns[n]) # {}
    /\ ~call.result.raised
    /\ DOMAIN call.result.entry # {}
    /\ \A k \in DOMAIN call.result.entry : call.result.entry[k] = None

AutoCall == call.op = "property_autoparse"

\* match_to_dict raises on some node matching candidate_pattern
AutoRaises ==
    \E i \in Matching(call.candidate_pattern) :
        MatchToDict(lines[i], call.patterns, minimal_results).raised

\* the items are one match_to_dict dictionary per matching node, in node order
AutoItemsAsExpected ==
    /\ Len(call.result.items) = Cardinality(Matching(call.candidate_pattern))
    /\ \A n \in 1..Len(call.result.items) :
          \E i \in Matching(call.candidate_pattern) :
              /\ Cardinality({j \in Matching(call.candidate_pattern) : j < i}) = n - 1
              /\ call.result.items[n]
                    = MatchToDict(lines[i], call.patterns, minimal_results).entry

\* the outcome is that of match_to_dict on each matching node, in node order:
\* the list of its dictionaries, or its error
AutoOutcomeAsExpected ==
    /\ call.result.raised <=> AutoRaises
    /\ ~call.result.raised => AutoItemsAsExpected

\* C7 (as stated): property_autoparse returns a list holding, for each node
\* matching candidate_pattern, in node order, what match_to_dict yields for it;
\* an empty list when no node matches.
C7_AutoparseReturnsList ==
    AutoCall => (~call.result.none /\ AutoOutcomeAsExpected)

\* C7 (amended): property_autoparse returns None, without raising, when no node
\* matches candidate_pattern; otherwise it yields, for each matching node in
\* node order, what match_to_dict yields for it.
C7_AutoparseNoneOrList ==
    AutoCall =>
        /\ call.result.none <=> Matching(call.candidate_pattern) = {}
        /\ call.result.none => (~call.result.raised /\ call.result.items = <<>>)
        /\ AutoOutcomeAsExpected

\* property_autoparse has returned different, non-empty dictionaries for two
\* matching nodes
C7_Witness ==
    /\ AutoCall
    /\ ~call.result.none
    /\ ~call.result.raised
    /\ Len(call.result.items) >= 2
    /\ call.result.items[1] # call.result.items[2]
    /\ call.result.items[1] # EmptyDict

SectionAutoCall == call.op = "section_property_autoparse"

\* the parent candidates of the call, in node order
SectionCandidates ==
    IF call.parent.is_line THEN {call.parent.line} ELSE Matching(call.parent.pattern)

\* the direct children of a node whose text the pattern is found in
MatchingChildren(x, pattern) == {k \in ChildrenOf(x) : Found(pattern, lines[k].text)}

Ambiguous(x, pattern) == Cardinality(MatchingChildren(x, pattern)) >= 2

\* the patterns of a list that do not match several children of x, in list order
RECURSIVE Unambiguous(_, _)
Unambiguous(x, patterns) ==
    IF patterns = <<>> THEN <<>>
    ELSE (IF Ambiguous(x, Head(patterns)) THEN <<>> ELSE <<Head(patterns)>>)
            \o Unambiguous(x, Tail(patterns))

\* the dictionary of the n-th item of the result, and its candidate
ItemEntry(n) ==
    IF call.return_with_line THEN call.result.items[n][2] ELSE call.result.items[n]

ItemCandidate(n) ==
    CHOOSE i \in SectionCandidates : Cardinality({j \in SectionCandidates : j < i}) = n - 1

\* C8: section_property_autoparse returns one dictionary per parent candidate;
\* a pattern that matches two or more direct children of a candidate adds no
\* key to that candidate's dictionary, and what the parent pattern and the
\* other patterns contribute is kept.
C8_AmbiguousChildSkipped ==
    SectionAutoCall =>
        /\ ~call.result.raised
        /\ Len(call.result.items) = Cardinality(SectionCandidates)
        /\ call.result.none <=> SectionCandidates = {}
        /\ \A n \in 1..Len(call.result.items) :
              LET x == ItemCandidate(n)
                  entry == ItemEntry(n)
              IN /\ call.return_with_line => call.result.items[n][1] = x
                 /\ \A k \in DOMAIN entry :
                       \/ ~call.parent.is_line /\ k \in GroupIndex(call.parent.pattern)
                       \/ \E m \in 1..Len(call.patterns) :
                             /\ k \in GroupIndex(call.patterns[m])
                             /\ ~Ambiguous(x, call.patterns[m])
                 /\ entry = SectionEntry(lines, call.parent, x,
                               Unambiguous(x, call.patterns), minimal_results).entry
                 /\ ~call.parent.is_line =>
                       \A k \in GroupIndex(call.parent.pattern) : k \in DOMAIN entry
                 /\ \A m \in 1..Len(call.patterns) :
                       Cardinality(MatchingChildren(x, call.patterns[m])) = 1 =>
                           \A k \in GroupIndex(call.patterns[m]) : k \in DOMAIN entry

====
